---- MODULE Spec2Model ----
(***************************************************************************)
(* Persistence layer of the embedded document store (@seald-io/nedb):     *)
(* storage.js (crash safe rewrite, startup recovery) and persistence.js   *)
(* (load, compaction, append, raw data interpretation).                    *)
(*                                                                         *)
(* A file's content is a sequence of tokens: a token is either the newline *)
(* character NL or an atom, the text of one serialized object (or Junk, a  *)
(* piece of text that is no serialized object).                            *)
(***************************************************************************)
EXTENDS Integers, Sequences, FiniteSets, TLC

\* ---------------------------------------------------------------- bounds
\* Lines of a text handed to the interpreters.
MaxLines == 4
\* Process restarts after a crash.
MaxRestarts == 1
\* Calls of persistNewState.
MaxAppends == 2
\* Longest random string the constructor tries its hooks on.
MaxProbeLen == 3
\* Calls of setInterval.
MaxTimers == 2
\* Compactions waiting in the executor.
MaxQueued == 2
\* 'error' events one line stream may emit.
MaxStreamErrors == 1
\* Tasks pushed to the executor.
MaxTasks == 3

\* ------------------------------------------------------------ vocabulary
Ids == {"a", "b"}
Vals == {1, 2}
Fields == {"f"}
Absent == 0

Doc(i, x) == [t |-> "doc", k |-> i, v |-> x, u |-> FALSE]
Tombstone(i) == [t |-> "del", k |-> i, v |-> 0, u |-> FALSE]
IndexCreated(f, uniq) == [t |-> "idx", k |-> f, v |-> 0, u |-> uniq]
IndexRemoved(f) == [t |-> "rmidx", k |-> f, v |-> 0, u |-> FALSE]
Other == [t |-> "other", k |-> "", v |-> 0, u |-> FALSE]
Junk == [t |-> "junk", k |-> "", v |-> 0, u |-> FALSE]
NL == [t |-> "nl", k |-> "", v |-> 0, u |-> FALSE]

DocAtoms == {Doc(i, x) : i \in Ids, x \in Vals}
TombAtoms == {Tombstone(i) : i \in Ids}
IndexAtoms == {IndexCreated(f, uniq) : f \in Fields, uniq \in BOOLEAN}
           \cup {IndexRemoved(f) : f \in Fields}
ObjectAtoms == DocAtoms \cup TombAtoms \cup IndexAtoms \cup {Other}
Atoms == ObjectAtoms \cup {Junk}

\* One line of text without its newline: blank, or one atom.
Segments == {<<>>} \cup {<<x>> : x \in Atoms}

\* The default corruptAlertThreshold 0.1, and other fractions num/den.
DefaultThreshold == [num |-> 1, den |-> 10]
Thresholds == {[num |-> 0, den |-> 1], DefaultThreshold, [num |-> 1, den |-> 2]}

EmptyData == [i \in Ids |-> Absent]
NoIndexes == [f \in Fields |-> "none"]

\* ------------------------------------------------ text <-> lines
\* segs[1] \n segs[2] \n ... segs[n]: the text whose lines are segs.
RECURSIVE JoinLines(_)
JoinLines(segs) ==
    IF Len(segs) = 0 THEN <<>>
    ELSE IF Len(segs) = 1 THEN segs[1]
    ELSE segs[1] \o <<NL>> \o JoinLines(Tail(segs))

\* rawData.split('\n'): cut at every NL; n newlines give n + 1 pieces.
RECURSIVE SplitAcc(_, _, _)
SplitAcc(s, cur, acc) ==
    IF Len(s) = 0 THEN Append(acc, cur)
    ELSE IF Head(s) = NL THEN SplitAcc(Tail(s), <<>>, Append(acc, cur))
    ELSE SplitAcc(Tail(s), Append(cur, Head(s)), acc)

Split(s) == SplitAcc(s, <<>>, <<>>)

\* byline(rawStream, { keepEmptyLines: true }): the 'data' events of the
\* line stream. An empty file gives no event at all; otherwise one event
\* per line, blank lines included.
Byline(s) == IF Len(s) = 0 THEN <<>> ELSE Split(s)

\* model.deserialize(beforeDeserialization(line)) with the default hook:
\* the object of a line holding exactly one serialized object, a thrown
\* error for anything else (blank line, torn text, two objects glued).
Parses(seg) == Len(seg) = 1 /\ seg[1] \in ObjectAtoms
deserialize(seg) == seg[1]

\* model.serialize(doc) followed by afterSerialization (default hook).
serialize(obj) == <<obj>>

\* ------------------------------------------------ raw data interpreter
TreatStartZero == [dataById |-> EmptyData, indexes |-> NoIndexes,
                   corruptItems |-> 0, length |-> 0]
TreatStart == [dataById |-> EmptyData, indexes |-> NoIndexes,
               corruptItems |-> -1, length |-> 0]

\* The body of the try block shared by both interpreters.
ReplayDocKeepDeleted(st, doc) ==
    IF doc.t = "doc" THEN [st EXCEPT !.dataById[doc.k] = doc.v]
    ELSE IF doc.t = "idx"
         THEN [st EXCEPT !.indexes[doc.k] = IF doc.u THEN "unique" ELSE "plain"]
    ELSE IF doc.t = "rmidx" THEN [st EXCEPT !.indexes[doc.k] = "none"]
    ELSE st
ReplayDoc(st, doc) ==
    IF doc.t = "doc" THEN [st EXCEPT !.dataById[doc.k] = doc.v]
    ELSE IF doc.t = "del" THEN [st EXCEPT !.dataById[doc.k] = Absent]
    ELSE IF doc.t = "idx"
         THEN [st EXCEPT !.indexes[doc.k] = IF doc.u THEN "unique" ELSE "plain"]
    ELSE IF doc.t = "rmidx" THEN [st EXCEPT !.indexes[doc.k] = "none"]
    ELSE st

\* One turn of the for loop of treatRawData.
TreatDatum(st, datum) ==
    IF Parses(datum) THEN ReplayDoc(st, deserialize(datum))
    ELSE [st EXCEPT !.corruptItems = @ + 1]

RECURSIVE FoldData(_, _)
FoldData(st, segs) ==
    IF Len(segs) = 0 THEN st ELSE FoldData(TreatDatum(st, Head(segs)), Tail(segs))

\* corruptItems / n > corruptAlertThreshold, on fractions.
RatioAbove(corrupt, n, th) == corrupt * th.den > th.num * n

Failure == [err |-> TRUE, data |-> EmptyData, indexes |-> NoIndexes]
Success(st) == [err |-> FALSE, data |-> st.dataById, indexes |-> st.indexes]

treatRawData(rawData, th) ==
    LET data == Split(rawData)
        st == FoldData(TreatStart, data)
    IN IF Len(data) > 0 /\ RatioAbove(st.corruptItems, Len(data), th)
       THEN Failure
       ELSE Success(st)

\* lineStream.on('data'): as the loop body, then length++.
OnDataNoLength(st, line) ==
    IF Parses(line) THEN ReplayDoc(st, deserialize(line))
    ELSE [st EXCEPT !.corruptItems = @ + 1]
OnData(st, line) ==
    LET s1 == IF Parses(line) THEN ReplayDoc(st, deserialize(line))
              ELSE [st EXCEPT !.corruptItems = @ + 1]
    IN [s1 EXCEPT !.length = @ + 1]

RECURSIVE FoldStream(_, _)
FoldStream(st, segs) ==
    IF Len(segs) = 0 THEN st ELSE FoldStream(OnData(st, Head(segs)), Tail(segs))

\* lineStream.on('end').
OnEnd(st, th) ==
    IF st.length > 0 /\ RatioAbove(st.corruptItems, st.length, th)
    THEN Failure
    ELSE Success(st)

treatRawStream(rawData, th) == OnEnd(FoldStream(TreatStart, Byline(rawData)), th)

\* ------------------------------------------------------------ storage
\* The datafile and its crash safe backup, filename + '~'.
filename == "db"
SameName(f) == f
tempFilename(f) == IF f = "db" THEN "db~" ELSE f
FileNames == {"db", "db~"}

NoFile == [exists |-> FALSE, content |-> <<>>]
File(c) == [exists |-> TRUE, content |-> c]

\* fs.rename, fs.writeFile, fs.appendFile on a file system fsys.
copyFile(fsys, old, new) == [fsys EXCEPT ![new] = fsys[old]]
renameLeavesTarget(fsys, old, new) == [fsys EXCEPT ![old] = NoFile]
rename(fsys, old, new) ==
    IF old = new THEN fsys
    ELSE [fsys EXCEPT ![new] = fsys[old], ![old] = NoFile]
writeFile(fsys, f, c) == [fsys EXCEPT ![f] = File(c)]
overwriteFile(fsys, f, c) == [fsys EXCEPT ![f] = File(c)]
appendFile(fsys, f, c) == [fsys EXCEPT ![f] = File(@.content \o c)]

\* Error codes of fs.open, fs.fsync and fs.close ("none": no error).
Codes == {"none", "EISDIR", "EPERM", "EIO"}

\* storage.flushToStorage: "ok" is callback(null), "err" is callback(error),
\* "throw" is the TypeError of reading errFS.code when errFS is null, raised
\* inside the close callback, where nothing catches it.
flushToStorage(isDir, openErr, fsyncErr, closeErr) ==
    IF openErr # "none"
    THEN IF openErr = "EISDIR" /\ isDir THEN "ok" ELSE "err"
    ELSE IF fsyncErr = "none" /\ closeErr = "none" THEN "ok"
    ELSE IF fsyncErr = "none" THEN "throw"
    ELSE IF fsyncErr \in {"EPERM", "EISDIR"} /\ isDir THEN "ok"
    ELSE "err"

\* The two call forms: a filename string, or { filename, isDir }. A string
\* has no isDir property, so options.isDir is undefined and counts as false.
FlushForms ==
    {[form |-> "string", isDir |-> FALSE],
     [form |-> "object", isDir |-> FALSE],
     [form |-> "object", isDir |-> TRUE]}
NoFlush == [form |-> "none", isDir |-> FALSE,
            openErr |-> "none", fsyncErr |-> "none", closeErr |-> "none"]
FlushCall(f, o, s, c) ==
    [form |-> f.form, isDir |-> f.isDir, openErr |-> o, fsyncErr |-> s, closeErr |-> c]

\* What the caller sees of an outcome: the calls of callback, and whether
\* an exception left the close callback uncaught.
FlushCallbacks(outcome) == IF outcome = "throw" THEN <<>> ELSE <<outcome>>

FlushOutcomes(isDir) ==
    {flushToStorage(isDir, o, f, c) : o \in Codes, f \in Codes, c \in Codes}

\* storage.ensureDatafileIntegrity; ioOk is whether the writeFile or the
\* rename it issues succeeds.
PromoteAlways(fsys, f, ioOk) ==
    [fs |-> rename(fsys, tempFilename(f), f), err |-> FALSE]
ensureDatafileIntegrity(fsys, f, ioOk) ==
    IF fsys[f].exists THEN [fs |-> fsys, err |-> FALSE]
    ELSE IF ~fsys[tempFilename(f)].exists
         THEN IF ioOk THEN [fs |-> writeFile(fsys, f, <<>>), err |-> FALSE]
              ELSE [fs |-> fsys, err |-> TRUE]
    ELSE IF ioOk THEN [fs |-> rename(fsys, tempFilename(f), f), err |-> FALSE]
         ELSE [fs |-> fsys, err |-> TRUE]

\* The text writeFileLines produces: every line followed by a newline.
RECURSIVE LinesText(_)
LinesText(ls) ==
    IF Len(ls) = 0 THEN <<>> ELSE Head(ls) \o <<NL>> \o LinesText(Tail(ls))

\* The steps of the async.waterfall of crashSafeWriteFileLines, as control
\* points: the step named is the next to be issued.
RewriteSteps == <<"rw_flushdir1", "rw_flushfile", "rw_open", "rw_write",
                  "rw_flushtemp", "rw_rename", "rw_flushdir2">>
RewritePcs == {RewriteSteps[j] : j \in 1..Len(RewriteSteps)}
                \cup {"rw_cb_ok", "rw_cb_err"}
StepIndex(step) == CHOOSE j \in 1..Len(RewriteSteps) : RewriteSteps[j] = step
StepAfterSkipFlush(step) ==
    IF StepIndex(step) = Len(RewriteSteps) THEN "rw_cb_ok"
    ELSE IF step = "rw_write" THEN "rw_rename"
    ELSE RewriteSteps[StepIndex(step) + 1]
StepAfter(step) ==
    IF StepIndex(step) = Len(RewriteSteps) THEN "rw_cb_ok"
    ELSE RewriteSteps[StepIndex(step) + 1]

\* async.waterfall: the next task on success, the final callback with the
\* error on the first failure; an uncaught exception ends the process.
GoOnRegardless(step, outcome) ==
    IF outcome = "throw" THEN "down" ELSE StepAfter(step)
NextStep(step, outcome) ==
    IF outcome = "ok" THEN StepAfter(step)
    ELSE IF outcome = "err" THEN "rw_cb_err"
    ELSE "down"

\* ------------------------------------------------------------ datastore
\* db.getAllData() and the indexes other than _id, serialized one per line.
IdOrder == <<"a", "b">>
FieldOrder == <<"f">>

DocLinesFirstOnly(d, ids) ==
    IF Len(ids) > 0 /\ d[Head(ids)] # Absent
    THEN <<serialize(Doc(Head(ids), d[Head(ids)]))>> ELSE <<>>
RECURSIVE DocLines(_, _)
DocLines(d, ids) ==
    IF Len(ids) = 0 THEN <<>>
    ELSE (IF d[Head(ids)] # Absent
          THEN <<serialize(Doc(Head(ids), d[Head(ids)]))>> ELSE <<>>)
         \o DocLines(d, Tail(ids))

RECURSIVE IndexLines(_, _)
IndexLines(idx, fields) ==
    IF Len(fields) = 0 THEN <<>>
    ELSE (IF idx[Head(fields)] # "none"
          THEN <<serialize(IndexCreated(Head(fields), idx[Head(fields)] = "unique"))>>
          ELSE <<>>)
         \o IndexLines(idx, Tail(fields))

CacheLinesWithTombstones(d, idx) ==
    DocLines(d, IdOrder)
        \o SelectSeq([j \in 1..Len(IdOrder) |-> serialize(Tombstone(IdOrder[j]))],
                     LAMBDA l : d[l[1].k] = Absent)
        \o IndexLines(idx, FieldOrder)
CacheLines(d, idx) == DocLines(d, IdOrder) \o IndexLines(idx, FieldOrder)

\* Object.keys(treatedData.indexes).forEach(key => db.indexes[key] = new Index(..))
InstallIndexes(idx, treatedIndexes) ==
    [f \in Fields |-> IF treatedIndexes[f] # "none" THEN treatedIndexes[f] ELSE idx[f]]

\* db.resetIndexes(data) throws when a unique index meets the same value twice.
UniqueViolation(d, idx) ==
    \E f \in Fields : idx[f] = "unique" /\
        \E i, j \in Ids : i # j /\ d[i] # Absent /\ d[i] = d[j]

\* What the catch block of the install leaves in the cache.
KeepPartial(d) == d
Rollback(d) == EmptyData

\* The caller of persistNewState has applied the change to its cache.
ApplyToCache(cache, obj) ==
    LET st == ReplayDoc([dataById |-> cache.data, indexes |-> cache.indexes,
                         corruptItems |-> 0, length |-> 0], obj)
    IN [data |-> st.dataById, indexes |-> st.indexes]

\* ------------------------------------------------------------ callbacks
\* What the callback persistCachedDatabase hands to crashSafeWriteFileLines
\* does before calling its own callback.
EmitAlways(err) == <<"emit">>
persistCallback(err) == IF err THEN <<>> ELSE <<"emit">>

\* The final callback of the waterfall of loadDatabase.
ReleaseAlways(err) == IF err THEN <<"release", "cb_err">> ELSE <<"release", "cb_ok">>
loadCallback(err) == IF err THEN <<"cb_err">> ELSE <<"release", "cb_ok">>

\* The callback of a direct caller of persistCachedDatabase.
callerCallback(err) == IF err THEN <<"cb_err">> ELSE <<"cb_ok">>

\* ---------------------------------------------------------- constructor
\* The characters of the random strings of customUtils.uid, and the file
\* names a store is configured with, character by character: no name (or
\* the empty one), plain names, names with a '~' at the end or elsewhere.
Chars == {"x", "y"}
ConfiguredNames == {<<>>, <<"d", "b">>, <<"d", "b", "~">>, <<"~">>, <<"~", "d">>}

\* The hooks a caller may supply: none, the identity, a string reversal (its
\* own inverse), a pair that adds and strips one character, and a hook that
\* loses what it is given.
HookKinds == {"none", "identity", "reverse", "append", "strip", "lossy"}

ApplyHook(kind, s) ==
    CASE kind = "identity" -> s
      [] kind = "reverse" -> [j \in 1..Len(s) |-> s[Len(s) + 1 - j]]
      [] kind = "append" -> Append(s, "!")
      [] kind = "strip" -> IF Len(s) = 0 THEN s ELSE SubSeq(s, 1, Len(s) - 1)
      [] kind = "lossy" -> [j \in 1..Len(s) |-> "x"]

\* options.afterSerialization is truthy; options.x || (s => s).
Supplied(kind) == kind # "none"
InstalledHook(kind) == IF Supplied(kind) THEN kind ELSE "identity"
InstalledHooks(opt) ==
    [afterSerialization |-> InstalledHook(opt.afterSerialization),
     beforeDeserialization |-> InstalledHook(opt.beforeDeserialization)]
NoHooks == [afterSerialization |-> "none", beforeDeserialization |-> "none"]

\* What a store may be configured with.
OptionsSet ==
    [inMemoryOnly : BOOLEAN, filename : ConfiguredNames,
     afterSerialization : HookKinds, beforeDeserialization : HookKinds]
DefaultOptions(mem) ==
    [inMemoryOnly |-> mem, filename |-> IF mem THEN <<>> ELSE <<"d", "b">>,
     afterSerialization |-> "none", beforeDeserialization |-> "none"]

\* customUtils.uid(i) for i = 1, 2, ...: one random string of each length
\* (the constructor draws ten of each, up to length 29).
RECURSIVE ProbeSeqs(_)
ProbeSeqs(n) ==
    IF n = 0 THEN {<<>>}
    ELSE {Append(ps, s) : ps \in ProbeSeqs(n - 1), s \in [1..n -> Chars]}

\* beforeDeserialization(afterSerialization(randomString)) !== randomString
ProbeFails(h, ps) ==
    \E j \in 1..Len(ps) :
        ApplyHook(h.beforeDeserialization, ApplyHook(h.afterSerialization, ps[j])) # ps[j]

\* The checks of the constructor, in their order.
EndsWithTilde(name) == Len(name) > 0 /\ name[Len(name)] = "~"
FilenameRejected(opt) == ~opt.inMemoryOnly /\ EndsWithTilde(opt.filename)
HooksUnpaired(opt) ==
    Supplied(opt.afterSerialization) # Supplied(opt.beforeDeserialization)
constructorUnpaired(opt, ps) ==
    IF FilenameRejected(opt) THEN "threw"
    ELSE IF ProbeFails(InstalledHooks(opt), ps) THEN "threw"
    ELSE "ok"
constructor(opt, ps) ==
    IF FilenameRejected(opt) THEN "threw"
    ELSE IF HooksUnpaired(opt) THEN "threw"
    ELSE IF ProbeFails(InstalledHooks(opt), ps) THEN "threw"
    ELSE "ok"

\* ----------------------------------------------------- autocompaction
\* A requested interval: undefined, a number of milliseconds, or Infinity.
minInterval == 5000
TimeoutMax == 2147483647
Undefined == [kind |-> "undefined", n |-> 0]
Num(n) == [kind |-> "number", n |-> n]
Infinity == [kind |-> "infinity", n |-> 0]
Intervals == {Undefined, Num(0), Num(4999), Num(5001), Infinity}

\* interval || 0, Math.max(.., minInterval)
OrZero(x) == IF x.kind = "undefined" THEN Num(0) ELSE x
MathMax(x, m) ==
    IF x.kind = "infinity" THEN x ELSE IF x.n > m THEN x ELSE Num(m)
realInterval(interval) == MathMax(OrZero(interval), minInterval)

\* setInterval(callback, delay): the timer is added, its id is its place in
\* the list. A delay that is not within 1..2^31-1 is set to 1 by the timers
\* of the runtime.
TimerPeriod(delay) ==
    IF delay.kind = "number" /\ delay.n >= 1 /\ delay.n <= TimeoutMax
    THEN delay.n ELSE 1
setInterval(tm, requested, delay) ==
    Append(tm, [requested |-> requested, period |-> TimerPeriod(delay), active |-> TRUE])
clearInterval(tm, id) ==
    IF id \in 1..Len(tm) THEN [tm EXCEPT ![id].active = FALSE] ELSE tm

\* if (this.autocompactionIntervalId) clearInterval(this.autocompactionIntervalId)
KeepTimer(tm, id) == tm
stopAutocompaction(tm, id) == IF id # 0 THEN clearInterval(tm, id) ELSE tm

\* What is known of the records the log stands for.
Unknown == [known |-> FALSE, data |-> EmptyData]
Known(d) == [known |-> TRUE, data |-> d]

\* What the appends that reported success stand for, whatever the failed
\* ones did: the records (data), the ids a failed append handed in and no
\* successful one since (lost), whether a failed append left part of its
\* text in the datafile (torn).
\* A call of persistNewState that did not wait for its turn: what it was
\* given, what its callback got, and the control point of the operation that
\* was in progress ("idle": none was).
NoDirect == [docs |-> <<>>, result |-> "none", at |-> "none"]
DirectCall(newDocs, res, at) == [docs |-> newDocs, result |-> res, at |-> at]

\* The tasks of the executor: a compaction pushed by compactDatafile, or an
\* insert, update or remove that ends in persistNewState(docs).
CompactTask(id) == [fn |-> "persistCachedDatabase", docs |-> <<>>, id |-> id]
AppendTask(id, newDocs) == [fn |-> "persistNewState", docs |-> newDocs, id |-> id]

NoKept == [known |-> FALSE, data |-> EmptyData, lost |-> {}, torn |-> FALSE]
KeptFrom(d) == [known |-> TRUE, data |-> d, lost |-> {}, torn |-> FALSE]
Touched(newDocs) ==
    {newDocs[j].k : j \in {n \in 1..Len(newDocs) : newDocs[n].t \in {"doc", "del"}}}

\* ------------------------------------------------------------- state
VARIABLES
    logLines, raw,  \* the interpreters on their own: the lines of a log, its text
    blobResult, streamResult, phase,  \* and what each makes of it
    threshold,      \* corruptAlertThreshold
    inMemoryOnly,   \* db.inMemoryOnly
    fs,             \* the files: name -> [exists, content]
    data, indexes,  \* the cache: db.getAllData(), db.indexes minus _id
    pc,             \* control point of the operation in progress
    op,             \* the top-level operation: none, load, compact, append
    lines, wpos,    \* the lines of the rewrite, and how many are written
    events,         \* what the current operation has done, in order
    result,         \* what the operation's callback received: none, ok, err
    mkdirErr, integrityErr,  \* errors handed to the ignoring callbacks
    failCause,      \* why the operation failed: none, read, corrupt, install, rewrite
    failedStep,     \* the rewrite step that reported an error
    fsBefore,       \* the files when ensureDatafileIntegrity started
    fsRead,         \* the files when the datafile was read
    rwOld, rwNew,   \* datafile at the start of the rewrite, text it writes
    crashPc,        \* control point of the last crash inside a rewrite
    restarts, appends,
    loaded,         \* the cache holds a load that completed (the Ready state)
    expected,       \* the records the log stands for, while that is known
    newDocsGiven,   \* the argument of the last persistNewState
    kept,           \* the records of the appends that succeeded, while known
    autocompactionIntervalId,  \* this.autocompactionIntervalId (0: undefined)
    timers,         \* every timer setInterval made: requested, period, active
    queued,         \* compactions pushed to the executor and not yet run
    options,        \* what the constructor was given
    built,          \* new, ok (constructed) or threw
    hooks,          \* this.afterSerialization, this.beforeDeserialization
    probes,         \* the random strings the constructor drew
    streamSt,       \* treatRawStream: dataById, indexes, corruptItems, length
    streamPhase,    \* idle, flowing (listeners attached) or ended
    streamErrors,   \* 'error' events the line stream has emitted
    cbCalls,        \* every call of cb made by treatRawStream, in order
    flushCall,      \* flushToStorage: the call form and what open, fsync, close gave
    flushReports,   \* every call of its callback, in order
    flushThrew,     \* an exception escaped from it
    buffer,         \* the queue of the executor: tasks pushed and not started
    pushed,         \* tasks pushed so far (the last task id)
    started,        \* the ids of the tasks the executor started, in order
    direct          \* the last persistNewState that ran next to other work

ivars == <<logLines, raw, blobResult, streamResult, phase>>
hist == <<fsBefore, fsRead, rwOld, rwNew, crashPc>>
avars == <<loaded, expected, newDocsGiven, kept>>
tvars == <<autocompactionIntervalId, timers, queued>>
cvars == <<options, built, hooks, probes>>
svars == <<streamSt, streamPhase, streamErrors, cbCalls>>
fvars == <<flushCall, flushReports, flushThrew>>
evars == <<buffer, pushed, started, direct>>
vars == <<logLines, raw, blobResult, streamResult, phase, threshold, inMemoryOnly, fs,
          data, indexes, pc, op, lines, wpos, events, result, mkdirErr,
          integrityErr, failCause, failedStep, fsBefore, fsRead, rwOld, rwNew,
          crashPc, restarts, appends, loaded, expected, newDocsGiven, kept,
          autocompactionIntervalId, timers, queued, options, built, hooks, probes,
          streamSt, streamPhase, streamErrors, cbCalls,
          flushCall, flushReports, flushThrew, buffer, pushed, started, direct>>

NoFiles == [f \in FileNames |-> NoFile]

\* No text is under interpretation.
NoLog ==
    /\ logLines = <<>>
    /\ raw = <<>>
    /\ blobResult = Failure
    /\ streamResult = Failure
    /\ phase = "input"

\* The fields of a store over the files fsys that has done nothing yet.
Fresh(fsys, mem, th) ==
    /\ threshold = th
    /\ inMemoryOnly = mem
    /\ fs = fsys
    /\ data = EmptyData
    /\ indexes = NoIndexes
    /\ pc = "idle"
    /\ op = "none"
    /\ lines = <<>>
    /\ wpos = 0
    /\ events = <<>>
    /\ result = "none"
    /\ mkdirErr = FALSE
    /\ integrityErr = FALSE
    /\ failCause = "none"
    /\ failedStep = "none"
    /\ fsBefore = fsys
    /\ fsRead = fsys
    /\ rwOld = NoFile
    /\ rwNew = <<>>
    /\ crashPc = "none"
    /\ restarts = 0
    /\ appends = 0
    /\ loaded = FALSE
    /\ expected = Unknown
    /\ kept = NoKept
    /\ newDocsGiven = <<>>
    /\ autocompactionIntervalId = 0
    /\ timers = <<>>
    /\ queued = 0
    /\ streamSt = TreatStart
    /\ streamPhase = "idle"
    /\ streamErrors = 0
    /\ cbCalls = <<>>
    /\ flushCall = NoFlush
    /\ flushReports = <<>>
    /\ flushThrew = FALSE
    /\ buffer = <<>>
    /\ pushed = 0
    /\ started = <<>>
    /\ direct = NoDirect

\* The state of a freshly constructed store, built without hooks.
Constructed(fsys, mem, th) ==
    /\ Fresh(fsys, mem, th)
    /\ options = DefaultOptions(mem)
    /\ built = "ok"
    /\ hooks = InstalledHooks(DefaultOptions(mem))
    /\ probes = <<>>

\* ------------------------------------------------------ the store
\* Datafiles a store may be opened on: none, an empty one, a clean log, a
\* log with a superseded record, a tombstone and an index, a torn log, a log
\* with a torn last line, and a log whose records break its unique index.
InitialDatafiles ==
    { NoFile,
      File(<<>>),
      File(LinesText(<<serialize(Doc("a", 1)), serialize(Doc("b", 2))>>)),
      File(LinesText(<<serialize(IndexCreated("f", FALSE)), serialize(Doc("a", 1)),
                       serialize(Tombstone("a")), serialize(Doc("b", 1)),
                       serialize(Doc("b", 2))>>)),
      File(LinesText(<<serialize(Junk)>>)),
      File(LinesText(<<serialize(Doc("a", 1))>>) \o <<Junk>>),
      File(LinesText(<<serialize(IndexCreated("f", TRUE)), serialize(Doc("a", 1)),
                       serialize(Doc("b", 1))>>)) }

\* Backups left behind: none, or the fully written text of a rewrite.
InitialTempfiles == {NoFile, File(LinesText(<<serialize(Doc("b", 1))>>))}

Init ==
    /\ logLines = <<>>
    /\ raw = <<>>
    /\ blobResult = Failure
    /\ streamResult = Failure
    /\ phase = "input"
    /\ \E d \in InitialDatafiles, t \in InitialTempfiles, mem \in BOOLEAN, th \in Thresholds :
          /\ mem => (d = NoFile /\ t = NoFile /\ th = DefaultThreshold)
          /\ Constructed([f \in FileNames |-> IF f = filename THEN d ELSE t], mem, th)

conf == <<threshold, inMemoryOnly>>
cache == <<data, indexes>>

\* The process is gone: what it held in memory is lost, the files stay.
Down(at, fs2) ==
    /\ pc' = "down"
    /\ crashPc' = IF at \in RewritePcs THEN at ELSE crashPc
    /\ IF at \in RewritePcs \/ crashPc # "none"
       THEN UNCHANGED <<rwOld, rwNew>>
       ELSE rwOld' = NoFile /\ rwNew' = <<>>
    /\ fsBefore' = fs2
    /\ fsRead' = fs2
    /\ data' = EmptyData
    /\ indexes' = NoIndexes
    /\ op' = "none"
    /\ lines' = <<>>
    /\ wpos' = 0
    /\ events' = <<>>
    /\ result' = "none"
    /\ mkdirErr' = FALSE
    /\ integrityErr' = FALSE
    /\ failCause' = "none"
    /\ failedStep' = "none"
    /\ loaded' = FALSE
    /\ newDocsGiven' = <<>>
    /\ UNCHANGED <<expected, kept>>

\* persistCachedDatabase past its inMemoryOnly test: the lines are taken
\* from the cache d, idx and crashSafeWriteFileLines issues its first step.
StartRewrite(d, idx) ==
    /\ lines' = CacheLines(d, idx)
    /\ wpos' = 0
    /\ rwOld' = fs[filename]
    /\ rwNew' = LinesText(CacheLines(d, idx))
    /\ pc' = "rw_flushdir1"
    /\ failedStep' = "none"
    /\ crashPc' = "none"

\* loadDatabase up to its first asynchronous call.
LoadDatabase ==
    /\ pc = "idle"
    /\ op' = "load"
    /\ data' = EmptyData
    /\ mkdirErr' = FALSE
    /\ integrityErr' = FALSE
    /\ failCause' = "none"
    /\ failedStep' = "none"
    /\ IF inMemoryOnly
       THEN /\ pc' = "idle"
            /\ events' = <<"cb_ok">>
            /\ result' = "ok"
       ELSE /\ pc' = "ld_mkdir"
            /\ events' = <<>>
            /\ result' = "none"
    /\ fsBefore' = fs
    /\ fsRead' = fs
    /\ IF crashPc = "none"
       THEN rwOld' = NoFile /\ rwNew' = <<>>
       ELSE UNCHANGED <<rwOld, rwNew>>
    /\ loaded' = inMemoryOnly
    /\ UNCHANGED <<expected, newDocsGiven, kept>>
    /\ UNCHANGED <<tvars, cvars, ivars, svars, fvars, evars, conf, fs, indexes, lines, wpos, crashPc, restarts, appends>>

\* Persistence.ensureDirectoryExists calls back; its error is dropped.
LoadMkdir ==
    /\ pc = "ld_mkdir"
    /\ \E ok \in BOOLEAN : mkdirErr' = ~ok
    /\ events' = Append(events, "mkdir")
    /\ pc' = "ld_integrity"
    /\ UNCHANGED <<tvars, cvars, ivars, svars, fvars, evars, conf, fs, cache, op, lines, wpos, result, integrityErr,
                   failCause, failedStep, hist, restarts, appends, avars>>

\* storage.ensureDatafileIntegrity calls back; its error is dropped too.
LoadIntegrity ==
    /\ pc = "ld_integrity"
    /\ \E ioOk \in BOOLEAN :
          LET r == ensureDatafileIntegrity(fs, filename, ioOk)
          IN /\ fs' = r.fs
             /\ integrityErr' = r.err
    /\ fsBefore' = fs
    /\ events' = Append(events, "integrity")
    /\ pc' = "ld_read"
    /\ UNCHANGED <<tvars, cvars, ivars, svars, fvars, evars, conf, cache, op, lines, wpos, result, mkdirErr,
                   failCause, failedStep, fsRead, rwOld, rwNew, crashPc,
                   restarts, appends, avars>>

\* storage.readFileStream and treatRawStream: the handlers are in place.
LoadOpenStream ==
    /\ pc = "ld_read"
    /\ events' = Append(events, "read")
    /\ fsRead' = fs
    /\ pc' = "ld_stream"
    /\ UNCHANGED <<tvars, cvars, ivars, svars, fvars, evars, conf, fs, cache, op, lines, wpos, result, mkdirErr,
                   integrityErr, failCause, failedStep, fsBefore, rwOld, rwNew,
                   crashPc, restarts, appends, avars>>

\* The end of a load that failed before any rewrite: callback(err).
LoadFails(cause, d) ==
    /\ data' = d
    /\ events' = events \o loadCallback(TRUE)
    /\ result' = "err"
    /\ failCause' = cause
    /\ pc' = "idle"
    /\ UNCHANGED <<lines, wpos, failedStep, rwOld, rwNew, crashPc>>

\* lineStream 'error': a missing or unreadable datafile.
LoadStreamError ==
    /\ pc = "ld_stream"
    /\ LoadFails("read", data)
    /\ UNCHANGED <<tvars, cvars, ivars, svars, fvars, evars, conf, fs, indexes, op, mkdirErr, integrityErr,
                   fsBefore, fsRead, restarts, appends, avars>>

\* lineStream 'end' and treatedDataCallback, down to the first step of the
\* rewrite that persistCachedDatabase starts.
LoadStreamEnd ==
    /\ pc = "ld_stream"
    /\ fs[filename].exists
    /\ LET treated == treatRawStream(fs[filename].content, threshold)
           idx == InstallIndexes(indexes, treated.indexes)
       IN IF treated.err
          THEN /\ LoadFails("corrupt", data)
               /\ UNCHANGED <<indexes, expected, kept>>
          ELSE IF UniqueViolation(treated.data, idx)
          THEN /\ indexes' = idx
               /\ LoadFails("install", Rollback(treated.data))
               /\ UNCHANGED <<expected, kept>>
          ELSE /\ indexes' = idx
               /\ data' = treated.data
               /\ events' = events \o <<"replay", "install", "compact">>
               /\ StartRewrite(treated.data, idx)
               /\ expected' = IF expected.known THEN expected ELSE Known(treated.data)
               /\ kept' = IF kept.known THEN kept ELSE KeptFrom(treated.data)
               /\ UNCHANGED <<result, failCause>>
    /\ UNCHANGED <<tvars, cvars, ivars, svars, fvars, evars, conf, fs, op, mkdirErr, integrityErr, fsBefore, fsRead,
                   restarts, appends, loaded, newDocsGiven>>

\* persistCachedDatabase, from the inMemoryOnly test to the first step of
\* the rewrite.
Compaction ==
    /\ pc = "idle"
    /\ op' = "compact"
    /\ mkdirErr' = FALSE
    /\ integrityErr' = FALSE
    /\ failCause' = "none"
    /\ IF inMemoryOnly
       THEN /\ events' = <<"compact">> \o callerCallback(FALSE)
            /\ result' = "ok"
            /\ pc' = "idle"
            /\ failedStep' = "none"
            /\ lines' = <<>>
            /\ wpos' = 0
            /\ rwOld' = NoFile
            /\ rwNew' = <<>>
            /\ crashPc' = "none"
       ELSE /\ events' = <<"compact">>
            /\ result' = "none"
            /\ StartRewrite(data, indexes)
    /\ fsBefore' = fs
    /\ fsRead' = fs
    /\ expected' = IF loaded THEN expected ELSE Unknown
    /\ kept' = IF loaded THEN kept ELSE NoKept
    /\ UNCHANGED <<cvars, ivars, svars, fvars, conf, fs, cache, restarts, appends, loaded, newDocsGiven>>

\* persistCachedDatabase called on its own.
PersistCachedDatabase == Compaction /\ UNCHANGED <<tvars, evars>>

\* One step of the waterfall of crashSafeWriteFileLines: it is issued, ends
\* with outcome and leaves the files fs2.
RewriteStep(step, name, outcome, fs2) ==
    /\ pc = step
    /\ fs' = fs2
    /\ IF outcome = "throw"
       THEN Down(step, fs2)
       ELSE /\ pc' = NextStep(step, outcome)
            /\ events' = Append(events, name)
            /\ failedStep' = IF outcome = "err" THEN step ELSE failedStep
            /\ UNCHANGED <<cache, op, lines, wpos, result, mkdirErr,
                           integrityErr, failCause, hist, avars>>
    /\ UNCHANGED <<tvars, cvars, ivars, svars, fvars, evars, conf, restarts, appends>>

RwFlushDirFirst ==
    \E outcome \in FlushOutcomes(TRUE) :
        RewriteStep("rw_flushdir1", "flushdir1", outcome, fs)

\* storage.exists(filename), then the flush of the datafile if it is there.
RwFlushFile ==
    IF fs[filename].exists
    THEN \E outcome \in FlushOutcomes(FALSE) :
            RewriteStep("rw_flushfile", "flushfile", outcome, fs)
    ELSE RewriteStep("rw_flushfile", "nofile", "ok", fs)

\* writeFileLines: fs.createWriteStream(tempFilename) creates or empties it.
RwOpen ==
    RewriteStep("rw_open", "write", "ok",
                writeFile(fs, tempFilename(filename), <<>>))

\* readable 'data': one line and its newline reach the file.
RwWriteLine ==
    /\ pc = "rw_write"
    /\ wpos < Len(lines)
    /\ fs' = appendFile(fs, tempFilename(filename), lines[wpos + 1] \o <<NL>>)
    /\ wpos' = wpos + 1
    /\ UNCHANGED <<tvars, cvars, ivars, svars, fvars, evars, conf, cache, pc, op, lines, events, result, mkdirErr,
                   integrityErr, failCause, failedStep, hist, restarts, appends, avars>>

\* readable 'end': stream.close(callback).
RwWriteEnd ==
    /\ wpos = Len(lines)
    /\ RewriteStep("rw_write", "close", "ok", fs)

\* stream 'error' at any point of the writing.
RwWriteError ==
    \E step \in {"rw_open", "rw_write"} :
        RewriteStep(step, "writeerror", "err", fs)

RwFlushTemp ==
    \E outcome \in FlushOutcomes(FALSE) :
        RewriteStep("rw_flushtemp", "flushtemp", outcome, fs)

RwRename ==
    \E ok \in BOOLEAN :
        RewriteStep("rw_rename", "rename", IF ok THEN "ok" ELSE "err",
                    IF ok THEN rename(fs, tempFilename(filename), filename) ELSE fs)

RwFlushDirLast ==
    \E outcome \in FlushOutcomes(TRUE) :
        RewriteStep("rw_flushdir2", "flushdir2", outcome, fs)

\* The final callback of the waterfall: persistCachedDatabase's handler and
\* the callback it was given.
RewriteCallback ==
    /\ pc \in {"rw_cb_ok", "rw_cb_err"}
    /\ LET err == pc = "rw_cb_err"
       IN /\ events' = events \o persistCallback(err)
                       \o (IF op = "load" THEN loadCallback(err) ELSE callerCallback(err))
          /\ result' = IF err THEN "err" ELSE "ok"
          /\ failCause' = IF err THEN "rewrite" ELSE "none"
          /\ loaded' = IF op = "load" THEN ~err ELSE loaded
    /\ UNCHANGED <<expected, newDocsGiven, kept>>
    /\ pc' = "idle"
    /\ lines' = <<>>
    /\ wpos' = 0
    /\ UNCHANGED <<tvars, cvars, ivars, svars, fvars, evars, conf, fs, cache, op, mkdirErr, integrityErr,
                   failedStep, hist, restarts, appends>>

\* What a caller may hand to persistNewState: nothing, a changed document,
\* an index directive, or a document and a tombstone together.
NewDocsChoices ==
    {<<>>, <<Doc("a", 2)>>, <<IndexCreated("f", TRUE)>>,
     <<Doc("b", 1), Tombstone("a")>>}

RECURSIVE ToPersist(_)
ToPersist(newDocs) ==
    IF Len(newDocs) = 0 THEN <<>>
    ELSE serialize(Head(newDocs)) \o <<NL>> \o ToPersist(Tail(newDocs))

RECURSIVE ApplyAll(_, _)
ApplyAll(c, newDocs) ==
    IF Len(newDocs) = 0 THEN c ELSE ApplyAll(ApplyToCache(c, Head(newDocs)), Tail(newDocs))

\* What a failed appendFile may have left of text: nothing, or all of it
\* but the end of its last line.
PartsWritten(text) ==
    {<<>>, SubSeq(text, 1, Len(text) - 2) \o <<Junk>>}

\* persistNewState(newDocs), the cache already holding the change.
PersistNewState ==
    /\ pc = "idle"
    /\ appends < MaxAppends
    /\ appends' = appends + 1
    /\ \E newDocs \in NewDocsChoices :
          LET toPersist == ToPersist(newDocs)
              c == ApplyAll([data |-> data, indexes |-> indexes], newDocs)
          IN /\ ~UniqueViolation(c.data, c.indexes)
             /\ newDocsGiven' = newDocs
             /\ data' = c.data
             /\ indexes' = c.indexes
             /\ IF inMemoryOnly \/ Len(toPersist) = 0
                THEN /\ fs' = fs
                     /\ result' = "ok"
                     /\ events' = <<"append", "cb_ok">>
                ELSE \E ok \in BOOLEAN :
                        IF ok
                        THEN /\ fs' = appendFile(fs, filename, toPersist)
                             /\ result' = "ok"
                             /\ events' = <<"append", "appendFile", "cb_ok">>
                        ELSE /\ \E part \in PartsWritten(toPersist) :
                                   fs' = appendFile(fs, filename, part)
                             /\ result' = "err"
                             /\ events' = <<"append", "appendFile", "cb_err">>
             /\ expected' =
                   IF loaded /\ expected.known /\ result' = "ok"
                   THEN Known(ApplyAll([data |-> expected.data, indexes |-> indexes],
                                       newDocs).data)
                   ELSE Unknown
             /\ kept' =
                   IF ~(loaded /\ kept.known) THEN NoKept
                   ELSE IF result' = "ok"
                   THEN [kept EXCEPT
                            !.data = ApplyAll([data |-> kept.data, indexes |-> indexes],
                                              newDocs).data,
                            !.lost = @ \ Touched(newDocs)]
                   ELSE [kept EXCEPT
                            !.lost = @ \cup Touched(newDocs),
                            !.torn = @ \/ fs'[filename] # fs[filename]]
    /\ op' = "append"
    /\ failCause' = IF result' = "err" THEN "append" ELSE "none"
    /\ failedStep' = "none"
    /\ mkdirErr' = FALSE
    /\ integrityErr' = FALSE
    /\ crashPc' = "none"
    /\ rwOld' = NoFile
    /\ rwNew' = <<>>
    /\ fsBefore' = fs
    /\ fsRead' = fs'
    /\ UNCHANGED <<tvars, cvars, ivars, svars, fvars, evars, conf, pc, lines, wpos, restarts, loaded>>

\* The process is killed, at any point.
Crash ==
    /\ pc # "down"
    /\ Down(pc, fs)
    /\ UNCHANGED <<tvars, cvars, ivars, svars, fvars, evars, conf, fs, restarts, appends>>

\* The program is started again on the files the crash left.
Restart ==
    /\ pc = "down"
    /\ restarts < MaxRestarts
    /\ restarts' = restarts + 1
    /\ pc' = "idle"
    /\ UNCHANGED <<tvars, cvars, ivars, svars, fvars, evars, conf, fs, cache, op, lines, wpos, events, result,
                   mkdirErr, integrityErr, failCause, failedStep, hist, appends, avars>>

Next ==
    \/ LoadDatabase
    \/ LoadMkdir
    \/ LoadIntegrity
    \/ LoadOpenStream
    \/ LoadStreamError
    \/ LoadStreamEnd
    \/ PersistCachedDatabase
    \/ RwFlushDirFirst
    \/ RwFlushFile
    \/ RwOpen
    \/ RwWriteLine
    \/ RwWriteEnd
    \/ RwWriteError
    \/ RwFlushTemp
    \/ RwRename
    \/ RwFlushDirLast
    \/ RewriteCallback
    \/ Crash
    \/ Restart

Spec == Init /\ [][Next]_vars

\* The store with its appends, opened on no datafile or on a clean one.
InitAppend ==
    /\ logLines = <<>>
    /\ raw = <<>>
    /\ blobResult = Failure
    /\ streamResult = Failure
    /\ phase = "input"
    /\ \E d \in {NoFile, File(LinesText(<<serialize(Doc("a", 1)), serialize(Doc("b", 2))>>))},
          mem \in BOOLEAN :
          /\ mem => d = NoFile
          /\ Constructed([f \in FileNames |-> IF f = filename THEN d ELSE NoFile],
                         mem, DefaultThreshold)

\* Every operation of the store and the appends; the process ends only by
\* the exception a flush may raise.
NextAppend ==
    \/ PersistNewState
    \/ LoadDatabase
    \/ LoadMkdir
    \/ LoadIntegrity
    \/ LoadOpenStream
    \/ LoadStreamError
    \/ LoadStreamEnd
    \/ PersistCachedDatabase
    \/ RwFlushDirFirst
    \/ RwFlushFile
    \/ RwOpen
    \/ RwWriteLine
    \/ RwWriteEnd
    \/ RwWriteError
    \/ RwFlushTemp
    \/ RwRename
    \/ RwFlushDirLast
    \/ RewriteCallback

SpecAppend == InitAppend /\ [][NextAppend]_vars

\* The same operations on a durable store whose corruptAlertThreshold lets
\* a load go through with a corrupt line among a few.
LenientThreshold == [num |-> 1, den |-> 2]

InitLenient ==
    /\ NoLog
    /\ Constructed([f \in FileNames |->
                       IF f = filename
                       THEN File(LinesText(<<serialize(Doc("a", 1)), serialize(Doc("b", 2))>>))
                       ELSE NoFile],
                   FALSE, LenientThreshold)

SpecLenient == InitLenient /\ [][NextAppend]_vars

\* ------------------------------------- the store on react-native
\* storage.react-native.js keeps each file as one item of AsyncStorage:
\* mkdir and ensureDatafileIntegrity call back at once and do nothing,
\* readFile gives '' for a missing item and never an error, and
\* crashSafeWriteFileLines is a single setItem under the datafile's name.
NativeText(ls) == JoinLines(Append(ls, <<>>))

StartNativeRewrite(d, idx) ==
    /\ lines' = CacheLines(d, idx)
    /\ wpos' = 0
    /\ rwOld' = fs[filename]
    /\ rwNew' = NativeText(CacheLines(d, idx))
    /\ pc' = "rn_write"
    /\ failedStep' = "none"
    /\ crashPc' = "none"

\* loadDatabase down to storage.readFile (there is no readFileStream).
NativeLoadDatabase ==
    /\ pc = "idle"
    /\ op' = "load"
    /\ data' = EmptyData
    /\ mkdirErr' = FALSE
    /\ integrityErr' = FALSE
    /\ failCause' = "none"
    /\ failedStep' = "none"
    /\ IF inMemoryOnly
       THEN /\ pc' = "idle"
            /\ events' = <<"cb_ok">>
            /\ result' = "ok"
       ELSE /\ pc' = "rn_read"
            /\ events' = <<"mkdir", "integrity", "read">>
            /\ result' = "none"
    /\ fsBefore' = fs
    /\ fsRead' = fs
    /\ rwOld' = NoFile
    /\ rwNew' = <<>>
    /\ crashPc' = "none"
    /\ loaded' = inMemoryOnly
    /\ UNCHANGED <<expected, newDocsGiven, kept>>
    /\ UNCHANGED <<tvars, cvars, ivars, svars, fvars, evars, conf, fs, indexes, lines, wpos, restarts, appends>>

\* The callback of storage.readFile: treatRawData, then treatedDataCallback
\* down to the setItem that persistCachedDatabase issues.
NativeRead ==
    /\ pc = "rn_read"
    /\ LET treated == treatRawData(fs[filename].content, threshold)
           idx == InstallIndexes(indexes, treated.indexes)
       IN IF treated.err
          THEN /\ LoadFails("corrupt", data)
               /\ UNCHANGED <<indexes, expected, kept>>
          ELSE IF UniqueViolation(treated.data, idx)
          THEN /\ indexes' = idx
               /\ LoadFails("install", Rollback(treated.data))
               /\ UNCHANGED <<expected, kept>>
          ELSE /\ indexes' = idx
               /\ data' = treated.data
               /\ events' = events \o <<"replay", "install", "compact">>
               /\ StartNativeRewrite(treated.data, idx)
               /\ expected' = IF expected.known THEN expected ELSE Known(treated.data)
               /\ kept' = IF kept.known THEN kept ELSE KeptFrom(treated.data)
               /\ UNCHANGED <<result, failCause>>
    /\ UNCHANGED <<tvars, cvars, ivars, svars, fvars, evars, conf, fs, op, mkdirErr, integrityErr, fsBefore, fsRead,
                   restarts, appends, loaded, newDocsGiven>>

\* persistCachedDatabase called on its own, down to its setItem.
NativeCompaction ==
    /\ pc = "idle"
    /\ op' = "compact"
    /\ mkdirErr' = FALSE
    /\ integrityErr' = FALSE
    /\ failCause' = "none"
    /\ IF inMemoryOnly
       THEN /\ events' = <<"compact">> \o callerCallback(FALSE)
            /\ result' = "ok"
            /\ pc' = "idle"
            /\ failedStep' = "none"
            /\ lines' = <<>>
            /\ wpos' = 0
            /\ rwOld' = NoFile
            /\ rwNew' = <<>>
            /\ crashPc' = "none"
       ELSE /\ events' = <<"compact">>
            /\ result' = "none"
            /\ StartNativeRewrite(data, indexes)
    /\ fsBefore' = fs
    /\ fsRead' = fs
    /\ expected' = IF loaded THEN expected ELSE Unknown
    /\ kept' = IF loaded THEN kept ELSE NoKept
    /\ UNCHANGED <<tvars, cvars, ivars, svars, fvars, evars, conf, fs, cache, restarts, appends, loaded,
                   newDocsGiven>>

\* AsyncStorage.setItem(filename, contents, callback) calls back.
NativeWrite ==
    /\ pc = "rn_write"
    /\ \E ok \in BOOLEAN :
          /\ fs' = IF ok THEN writeFile(fs, filename, rwNew) ELSE fs
          /\ pc' = IF ok THEN "rw_cb_ok" ELSE "rw_cb_err"
          /\ failedStep' = IF ok THEN failedStep ELSE "rn_write"
    /\ events' = Append(events, "setItem")
    /\ UNCHANGED <<tvars, cvars, ivars, svars, fvars, evars, conf, cache, op, lines, wpos, result, mkdirErr,
                   integrityErr, failCause, hist, restarts, appends, avars>>

NextNative ==
    \/ NativeLoadDatabase
    \/ NativeRead
    \/ NativeCompaction
    \/ NativeWrite
    \/ RewriteCallback
    \/ Crash
    \/ Restart

SpecNative == Init /\ [][NextNative]_vars

\* ------------------------------------------------ autocompaction
InitTimer ==
    /\ logLines = <<>>
    /\ raw = <<>>
    /\ blobResult = Failure
    /\ streamResult = Failure
    /\ phase = "input"
    /\ Constructed([f \in FileNames |->
                       IF f = filename
                       THEN File(LinesText(<<serialize(Doc("a", 1)), serialize(Doc("b", 2))>>))
                       ELSE NoFile],
                   FALSE, DefaultThreshold)

\* setAutocompactionInterval(interval)
SetAutocompactionInterval(interval) ==
    /\ Len(timers) < MaxTimers
    /\ timers' = setInterval(stopAutocompaction(timers, autocompactionIntervalId),
                             interval, realInterval(interval))
    /\ autocompactionIntervalId' = Len(timers) + 1
    /\ UNCHANGED <<cvars, ivars, svars, fvars, evars, conf, fs, cache, pc, op, lines, wpos, events, result,
                   mkdirErr, integrityErr, failCause, failedStep, hist, restarts,
                   appends, avars, queued>>

\* stopAutocompaction(); autocompactionIntervalId keeps its value.
StopAutocompaction ==
    /\ timers' = stopAutocompaction(timers, autocompactionIntervalId)
    /\ UNCHANGED <<cvars, ivars, svars, fvars, evars, conf, fs, cache, pc, op, lines, wpos, events, result,
                   mkdirErr, integrityErr, failCause, failedStep, hist, restarts,
                   appends, avars, queued, autocompactionIntervalId>>

\* A timer that is active fires: compactDatafile pushes persistCachedDatabase
\* to the executor.
TimerFires ==
    /\ \E id \in 1..Len(timers) : timers[id].active
    /\ queued < MaxQueued
    /\ queued' = queued + 1
    /\ UNCHANGED <<cvars, ivars, svars, fvars, evars, conf, fs, cache, pc, op, lines, wpos, events, result,
                   mkdirErr, integrityErr, failCause, failedStep, hist, restarts,
                   appends, avars, autocompactionIntervalId, timers>>

\* The executor, released by a load, runs the next compaction it holds once
\* the operation before it has called back.
CompactDatafileRuns ==
    /\ loaded
    /\ queued > 0
    /\ queued' = queued - 1
    /\ Compaction
    /\ UNCHANGED <<autocompactionIntervalId, timers, evars>>

\* The store is loaded once, at start (again if the load fails).
LoadAtStart == ~loaded /\ LoadDatabase

NextTimer ==
    \/ \E interval \in Intervals : SetAutocompactionInterval(interval)
    \/ StopAutocompaction
    \/ TimerFires
    \/ CompactDatafileRuns
    \/ LoadAtStart
    \/ LoadMkdir
    \/ LoadIntegrity
    \/ LoadOpenStream
    \/ LoadStreamError
    \/ LoadStreamEnd
    \/ RwFlushDirFirst
    \/ RwFlushFile
    \/ RwOpen
    \/ RwWriteLine
    \/ RwWriteEnd
    \/ RwWriteError
    \/ RwFlushTemp
    \/ RwRename
    \/ RwFlushDirLast
    \/ RewriteCallback

SpecTimer == InitTimer /\ [][NextTimer]_vars

\* ------------------------------------------- appends next to a rewrite
\* What an insert, update or remove may hand to persistNewState.
DirectDocs == {<<Doc("a", 2)>>, <<Doc("b", 1), Tombstone("a")>>}

\* persistNewState(newDocs) whatever else is in progress: the cache holds
\* the change already, the text goes to storage.appendFile, the callback gets
\* its error. The operation in progress keeps its own control point.
AppendNow(newDocs) ==
    LET toPersist == ToPersist(newDocs)
        c == ApplyAll([data |-> data, indexes |-> indexes], newDocs)
    IN /\ ~inMemoryOnly
       /\ ~UniqueViolation(c.data, c.indexes)
       /\ data' = c.data
       /\ indexes' = c.indexes
       /\ \E ok \in BOOLEAN :
             IF ok
             THEN /\ fs' = appendFile(fs, filename, toPersist)
                  /\ direct' = DirectCall(newDocs, "ok", pc)
             ELSE /\ \E part \in PartsWritten(toPersist) :
                        fs' = appendFile(fs, filename, part)
                  /\ direct' = DirectCall(newDocs, "err", pc)
       /\ appends' = appends + 1
       /\ newDocsGiven' = newDocs
       /\ expected' = Unknown
       /\ kept' = NoKept
       /\ UNCHANGED <<cvars, ivars, svars, fvars, conf, pc, op, lines, wpos, events,
                      result, mkdirErr, integrityErr, failCause, failedStep, hist,
                      restarts, loaded>>

\* A caller that bypasses the executor: persistNewState while a rewrite is
\* in flight.
DirectAppend ==
    /\ pc \in RewritePcs
    /\ direct = NoDirect
    /\ \E newDocs \in DirectDocs : AppendNow(newDocs)
    /\ UNCHANGED <<tvars, buffer, pushed, started>>

\* Top-level operations are started until the direct call is made.
NextDirect ==
    \/ direct = NoDirect /\ LoadAtStart
    \/ direct = NoDirect /\ loaded /\ PersistCachedDatabase
    \/ DirectAppend
    \/ LoadMkdir
    \/ LoadIntegrity
    \/ LoadOpenStream
    \/ LoadStreamError
    \/ LoadStreamEnd
    \/ RwFlushDirFirst
    \/ RwFlushFile
    \/ RwOpen
    \/ RwWriteLine
    \/ RwWriteEnd
    \/ RwWriteError
    \/ RwFlushTemp
    \/ RwRename
    \/ RwFlushDirLast
    \/ RewriteCallback

SpecDirect == InitTimer /\ [][NextDirect]_vars

\* ------------------------------------------- the executor's queue
\* compactDatafile: executor.push of persistCachedDatabase, at the end of
\* the queue.
compactDatafileFirst(buf, id) == <<CompactTask(id)>> \o buf
compactDatafile(buf, id) == Append(buf, CompactTask(id))

\* A tick of the autocompaction timer: this.compactDatafile().
TickEnqueues ==
    /\ \E id \in 1..Len(timers) : timers[id].active
    /\ pushed < MaxTasks
    /\ pushed' = pushed + 1
    /\ buffer' = compactDatafile(buffer, pushed + 1)
    /\ queued' = queued + 1
    /\ UNCHANGED <<cvars, ivars, svars, fvars, conf, fs, cache, pc, op, lines, wpos,
                   events, result, mkdirErr, integrityErr, failCause, failedStep, hist,
                   restarts, appends, avars, autocompactionIntervalId, timers,
                   started, direct>>

\* An insert, update or remove of the datastore is pushed.
PushAppend(newDocs) ==
    /\ pushed < MaxTasks
    /\ pushed' = pushed + 1
    /\ buffer' = Append(buffer, AppendTask(pushed + 1, newDocs))
    /\ UNCHANGED <<cvars, ivars, svars, fvars, conf, fs, cache, pc, op, lines, wpos,
                   events, result, mkdirErr, integrityErr, failCause, failedStep, hist,
                   restarts, appends, avars, tvars, started, direct>>

\* The executor, released by a load, starts the task at the head of its
\* queue once the task before it has called back.
ExecutorRuns ==
    /\ loaded
    /\ pc = "idle"
    /\ Len(buffer) > 0
    /\ buffer' = Tail(buffer)
    /\ started' = Append(started, Head(buffer).id)
    /\ UNCHANGED pushed
    /\ IF Head(buffer).fn = "persistCachedDatabase"
       THEN /\ Compaction
            /\ queued' = queued - 1
            /\ UNCHANGED <<autocompactionIntervalId, timers, direct>>
       ELSE /\ AppendNow(Head(buffer).docs)
            /\ UNCHANGED tvars

NextExecutor ==
    \/ SetAutocompactionInterval(Num(minInterval))
    \/ TickEnqueues
    \/ \E newDocs \in DirectDocs : PushAppend(newDocs)
    \/ ExecutorRuns
    \/ LoadAtStart
    \/ LoadMkdir
    \/ LoadIntegrity
    \/ LoadOpenStream
    \/ LoadStreamError
    \/ LoadStreamEnd
    \/ RwFlushDirFirst
    \/ RwFlushFile
    \/ RwOpen
    \/ RwWriteLine
    \/ RwWriteEnd
    \/ RwWriteError
    \/ RwFlushTemp
    \/ RwRename
    \/ RwFlushDirLast
    \/ RewriteCallback

SpecExecutor == InitTimer /\ [][NextExecutor]_vars

\* ------------------------------------------------ the constructor
InitConstruct ==
    /\ logLines = <<>>
    /\ raw = <<>>
    /\ blobResult = Failure
    /\ streamResult = Failure
    /\ phase = "input"
    /\ Fresh(NoFiles, FALSE, DefaultThreshold)
    /\ options \in OptionsSet
    /\ built = "new"
    /\ hooks = NoHooks
    /\ probes = <<>>

\* new Persistence(options): the random strings are drawn only when the
\* checks before the loop have passed.
Construct ==
    /\ built = "new"
    /\ \E ps \in (IF FilenameRejected(options) \/ HooksUnpaired(options)
                  THEN {<<>>} ELSE ProbeSeqs(MaxProbeLen)) :
          /\ probes' = ps
          /\ built' = constructor(options, ps)
    /\ hooks' = IF built' = "ok" THEN InstalledHooks(options) ELSE NoHooks
    /\ inMemoryOnly' = IF built' = "ok" THEN options.inMemoryOnly ELSE inMemoryOnly
    /\ UNCHANGED <<ivars, svars, fvars, evars, threshold, fs, cache, pc, op, lines, wpos, events, result,
                   mkdirErr, integrityErr, failCause, failedStep, hist, restarts,
                   appends, avars, tvars, options>>

NextConstruct == Construct

SpecConstruct == InitConstruct /\ [][NextConstruct]_vars

\* ------------------------------------------- the line stream, event by event
\* treatRawStream(rawStream, cb): the interpreter's variables are set up and
\* the three listeners are attached to the line stream.
InitStream == (\E th \in Thresholds : Constructed(NoFiles, FALSE, th)) /\ NoLog

\* The other fields of the store, which the listeners do not touch.
StreamFrame ==
    UNCHANGED <<ivars, conf, fs, cache, pc, op, lines, wpos, events, result, mkdirErr,
                integrityErr, failCause, failedStep, hist, restarts, appends,
                avars, tvars, cvars, fvars, evars>>

TreatRawStream ==
    /\ streamPhase = "idle"
    /\ streamSt' = TreatStart
    /\ streamPhase' = "flowing"
    /\ UNCHANGED <<streamErrors, cbCalls>>
    /\ StreamFrame

\* lineStream 'data': one more line.
StreamData(line) ==
    /\ streamPhase = "flowing"
    /\ streamSt.length < MaxLines
    /\ streamSt' = OnData(streamSt, line)
    /\ UNCHANGED <<streamPhase, streamErrors, cbCalls>>
    /\ StreamFrame

\* lineStream 'error': cb(err). The listener neither detaches the others nor
\* remembers that cb was called.
OnError(calls) == Append(calls, "err")

StreamError ==
    /\ streamPhase = "flowing"
    /\ streamErrors < MaxStreamErrors
    /\ streamErrors' = streamErrors + 1
    /\ cbCalls' = OnError(cbCalls)
    /\ UNCHANGED <<streamSt, streamPhase>>
    /\ StreamFrame

\* lineStream 'end': cb(err, null) on too many corrupt lines, cb(null,
\* result) otherwise. A stream ends once, and emits nothing afterwards.
StreamEnd ==
    /\ streamPhase = "flowing"
    /\ streamPhase' = "ended"
    /\ cbCalls' = Append(cbCalls, IF OnEnd(streamSt, threshold).err THEN "err" ELSE "result")
    /\ UNCHANGED <<streamSt, streamErrors>>
    /\ StreamFrame

NextStream ==
    \/ TreatRawStream
    \/ \E line \in Segments : StreamData(line)
    \/ StreamError
    \/ StreamEnd

SpecStream == InitStream /\ [][NextStream]_vars

\* ------------------------------------------- flushToStorage alone
InitFlush == Constructed(NoFiles, FALSE, DefaultThreshold) /\ NoLog

\* One call of storage.flushToStorage, in either form, with every outcome of
\* fs.open, fs.fsync and fs.close.
FlushToStorage(f, o, s, c) ==
    /\ flushCall = NoFlush
    /\ flushCall' = FlushCall(f, o, s, c)
    /\ LET outcome == flushToStorage(f.isDir, o, s, c)
       IN /\ flushReports' = FlushCallbacks(outcome)
          /\ flushThrew' = (outcome = "throw")
    /\ UNCHANGED <<ivars, svars, evars, conf, fs, cache, pc, op, lines, wpos, events, result,
                   mkdirErr, integrityErr, failCause, failedStep, hist, restarts,
                   appends, avars, tvars, cvars>>

NextFlush ==
    \E f \in FlushForms : \E o \in Codes, s \in Codes, c \in Codes :
        FlushToStorage(f, o, s, c)

SpecFlush == InitFlush /\ [][NextFlush]_vars

\* ------------------------------------------- the interpreters alone
InitInterp ==
    /\ \E n \in 1..MaxLines : logLines \in [1..n -> Segments]
    /\ raw = JoinLines(logLines)
    /\ blobResult = Failure
    /\ streamResult = Failure
    /\ phase = "input"
    /\ Constructed(NoFiles, FALSE, DefaultThreshold)

\* The text is interpreted under corruptAlertThreshold th, once as a whole
\* (treatRawData) and once as a stream of lines (treatRawStream).
Interpret(th) ==
    /\ phase = "input"
    /\ threshold' = th
    /\ blobResult' = treatRawData(raw, th)
    /\ streamResult' = treatRawStream(raw, th)
    /\ phase' = "done"
    /\ UNCHANGED <<logLines, raw, inMemoryOnly, fs, data, indexes, pc, op, lines, wpos,
                   events, result, mkdirErr, integrityErr, failCause,
                   failedStep, hist, restarts, appends, avars, tvars, cvars, svars, fvars, evars>>

NextInterp == \E th \in Thresholds : Interpret(th)

SpecInterp == InitInterp /\ [][NextInterp]_vars

\* ------------------------------------------------------------ properties
TempName == "db~"
InSeq(x, sq) == \E j \in 1..Len(sq) : sq[j] = x
Count(x, sq) == Cardinality({j \in 1..Len(sq) : sq[j] = x})

BeforeRenameDone == {"rw_flushdir1", "rw_flushfile", "rw_open", "rw_write",
                     "rw_flushtemp", "rw_rename"}

\* C1: a rewrite started on an existing datafile and cut by a crash at any
\* point leaves, once the recovery check of the next start has run, a
\* datafile that exists and holds either all of the previous text or all of
\* the new text; a crash before the rename leaves the previous text.
CrashAtomicity ==
    (pc \in {"ld_read", "ld_stream"} /\ crashPc \in RewritePcs /\ rwOld.exists)
        => /\ fs[filename].exists
           /\ fs[filename] \in {rwOld, File(rwNew)}
           /\ (crashPc \in BeforeRenameDone => fs[filename] = rwOld)

CrashAtomicityWitness ==
    /\ pc = "ld_stream"
    /\ crashPc = "rw_flushtemp"
    /\ rwOld.exists
    /\ rwOld.content # rwNew
    /\ fs[filename] = rwOld
    /\ fs[TempName] = File(rwNew)

\* The event a step leaves in the log when it reports an error.
FailureEvent(step) ==
    CASE step = "rw_flushdir1" -> "flushdir1"
      [] step = "rw_flushfile" -> "flushfile"
      [] step = "rw_open" -> "writeerror"
      [] step = "rw_write" -> "writeerror"
      [] step = "rw_flushtemp" -> "flushtemp"
      [] step = "rw_rename" -> "rename"
      [] step = "rw_flushdir2" -> "flushdir2"

StepEvents == {"flushdir1", "flushfile", "nofile", "write", "close", "writeerror",
               "flushtemp", "rename", "flushdir2"}
IsStepEvent(e) == e \in StepEvents
StepsRun == SelectSeq(events, IsStepEvent)

RecoveryTable ==
    (pc = "ld_read" /\ ~integrityErr)
        => /\ fsBefore[filename].exists => fs = fsBefore
           /\ (~fsBefore[filename].exists /\ fsBefore[TempName].exists)
                 => (fs[filename] = fsBefore[TempName] /\ ~fs[TempName].exists)
           /\ (~fsBefore[filename].exists /\ ~fsBefore[TempName].exists)
                 => (fs[filename] = File(<<>>) /\ ~fs[TempName].exists)

RecoveryTableWitness ==
    /\ pc = "ld_read"
    /\ ~integrityErr
    /\ ~fsBefore[filename].exists
    /\ fsBefore[TempName].exists
    /\ fsBefore[TempName].content # <<>>
    /\ fs[filename] = fsBefore[TempName]

\* The lines of the log, and for each key the last line that speaks of it.
LogLines == logLines
RecordLines(i) ==
    {j \in 1..Len(LogLines) :
        /\ Len(LogLines[j]) = 1
        /\ LogLines[j][1].t \in {"doc", "del"}
        /\ LogLines[j][1].k = i}
DirectiveLines(f) ==
    {j \in 1..Len(LogLines) :
        /\ Len(LogLines[j]) = 1
        /\ LogLines[j][1].t \in {"idx", "rmidx"}
        /\ LogLines[j][1].k = f}
Latest(S) == CHOOSE j \in S : \A k \in S : k <= j

ExpectedData ==
    [i \in Ids |->
        IF RecordLines(i) = {} THEN Absent
        ELSE LET last == LogLines[Latest(RecordLines(i))][1]
             IN IF last.t = "doc" THEN last.v ELSE Absent]
ExpectedIndexes ==
    [f \in Fields |->
        IF DirectiveLines(f) = {} THEN "none"
        ELSE LET last == LogLines[Latest(DirectiveLines(f))][1]
             IN IF last.t = "rmidx" THEN "none"
                ELSE IF last.u THEN "unique" ELSE "plain"]

\* C4: a load that succeeds returns, for every identifier, the last record
\* line for it unless a tombstone for it comes later, and for every field
\* the last index creation unless a removal comes later, for both
\* interpreters.
ReplayIsFold ==
    phase = "done"
        => /\ ~blobResult.err
                => (blobResult.data = ExpectedData /\ blobResult.indexes = ExpectedIndexes)
           /\ ~streamResult.err
                => (streamResult.data = ExpectedData /\ streamResult.indexes = ExpectedIndexes)

ReplayIsFoldWitness ==
    /\ phase = "done"
    /\ ~streamResult.err
    /\ ~blobResult.err
    /\ \E i \in Ids : \E j, k, l \in RecordLines(i) :
          /\ j < k /\ k < l /\ l = Latest(RecordLines(i))
          /\ LogLines[j][1].t = "doc"
          /\ LogLines[k][1].t = "del"
          /\ LogLines[l][1].t = "doc"
          /\ LogLines[l][1].v # LogLines[j][1].v
          /\ streamResult.data[i] = LogLines[l][1].v

\* The corrupt lines of the log: those that do not parse, a blank last line
\* left out.
CorruptLines ==
    {j \in 1..Len(LogLines) :
        ~Parses(LogLines[j]) /\ ~(j = Len(LogLines) /\ LogLines[j] = <<>>)}

\* C5: a load fails exactly when corrupt lines / total lines is above the
\* threshold, and a load that succeeds returns the replay of the lines that
\* parse.
CorruptionBoundary ==
    phase = "done"
        => /\ blobResult.err
                <=> RatioAbove(Cardinality(CorruptLines), Len(LogLines), threshold)
           /\ streamResult.err
                <=> RatioAbove(Cardinality(CorruptLines), Len(LogLines), threshold)
           /\ ~blobResult.err => blobResult.data = ExpectedData
           /\ ~streamResult.err => streamResult.data = ExpectedData

\* C6: treatRawStream and treatRawData agree on every text: both fail, or
\* both succeed with the same records and the same index directives.
StreamEqualsBlob ==
    phase = "done"
        => /\ blobResult.err = streamResult.err
           /\ blobResult.data = streamResult.data
           /\ blobResult.indexes = streamResult.indexes

StreamEqualsBlobWitness ==
    /\ phase = "done"
    /\ Len(raw) > 0
    /\ raw[Len(raw)] # NL
    /\ InSeq(Junk, raw)
    /\ ~blobResult.err
    /\ blobResult.data # EmptyData
    /\ blobResult = streamResult

\* C7: a load that reports a read error, too many corrupt lines or a failed
\* install leaves the cache without records, has run no step of a rewrite
\* (the files are as they were read) and has not released the queue.
FailedLoadInstallsNothing ==
    (op = "load" /\ pc = "idle" /\ result = "err"
        /\ failCause \in {"read", "corrupt", "install"})
        => /\ data = EmptyData
           /\ StepsRun = <<>>
           /\ ~InSeq("compact", events)
           /\ fs = fsRead
           /\ ~InSeq("release", events)

FailedLoadInstallsNothingWitness ==
    /\ op = "load"
    /\ pc = "idle"
    /\ result = "err"
    /\ failCause = "install"
    /\ indexes["f"] = "unique"
    /\ data = EmptyData

LoadOrder == <<"integrity", "read", "replay", "install", "compact", "emit",
               "release", "cb_ok">>
IsLoadEvent(e) == InSeq(e, LoadOrder)
LoadEvents == SelectSeq(events, IsLoadEvent)

\* C8: a durable load goes recovery check, read, replay, install, compaction,
\* release, success callback, in this order; once it has installed the
\* records it starts the compaction, it releases the queue only after every
\* step of the rewrite has succeeded, and a failed compaction ends the load
\* with the error and without the release.
LoadCompactsThenReleases ==
    (op = "load" /\ ~inMemoryOnly)
        => /\ LoadEvents = SubSeq(LoadOrder, 1, Len(LoadEvents))
           /\ InSeq("install", events) => InSeq("compact", events)
           /\ InSeq("release", events)
                 => (failedStep = "none" /\ StepsRun # <<>>
                     /\ StepsRun[Len(StepsRun)] = "flushdir2")
           /\ (pc = "idle" /\ result = "ok") => LoadEvents = LoadOrder
           /\ (pc = "idle" /\ failCause = "rewrite")
                 => (result = "err" /\ ~InSeq("release", events))

LoadCompactsThenReleasesWitness ==
    /\ op = "load"
    /\ pc = "idle"
    /\ result = "ok"
    /\ InSeq("release", events)
    /\ rwOld.exists
    /\ rwOld.content # rwNew
    /\ fs[filename] = File(rwNew)

\* C9: a failed mkdir or a failed recovery check ends the load with that
\* error: the load does not go on to read, install or compact.
LoadPropagatesBackendErrors ==
    (op = "load" /\ (mkdirErr \/ integrityErr))
        => /\ ~InSeq("read", events)
           /\ ~InSeq("install", events)
           /\ ~InSeq("compact", events)
           /\ pc = "idle" => result = "err"

\* C10: 'compaction.done' is emitted once for a rewrite whose every step
\* succeeded, right after its last step and before the caller's callback,
\* and not at all for a rewrite that failed.
CompactionDoneOnce ==
    /\ Count("emit", events) <= 1
    /\ \A j \in 1..Len(events) : events[j] = "emit"
          => /\ j > 1 /\ events[j - 1] = "flushdir2"
             /\ j < Len(events) /\ events[j + 1] \in {"release", "cb_ok"}
             /\ \A k \in 1..j : events[k] \notin {"cb_ok", "cb_err"}
    /\ (failedStep # "none" \/ failCause # "none") => ~InSeq("emit", events)
    /\ (pc = "idle" /\ op \in {"load", "compact"} /\ ~inMemoryOnly /\ result = "ok")
          => Count("emit", events) = 1

CompactionDoneOnceWitness ==
    /\ op = "compact"
    /\ pc = "idle"
    /\ result = "ok"
    /\ Count("emit", events) = 1
    /\ events[Len(events)] = "cb_ok"

\* The lines of the datafile, each ended by a newline (the blank piece
\* after the last newline left out).
DatafileLines ==
    LET ls == Split(fs[filename].content) IN SubSeq(ls, 1, Len(ls) - 1)
Materialized == {i \in Ids : data[i] # Absent}
ActiveIndexes == {f \in Fields : indexes[f] # "none"}

\* C11: the datafile a successful compaction leaves holds one line for each
\* record of the cache and one for each index other than _id, every line
\* ended by a newline, and no tombstone, index removal or older version of
\* a record.
CompactionNonBloating ==
    (op \in {"compact", "load"} /\ pc = "idle" /\ result = "ok" /\ ~inMemoryOnly)
        => LET ls == DatafileLines
           IN /\ fs[filename].exists
              /\ Len(fs[filename].content) = 2 * Len(ls)
              /\ Len(ls) = Cardinality(Materialized) + Cardinality(ActiveIndexes)
              /\ \A j \in 1..Len(ls) : Len(ls[j]) = 1 /\ ls[j][1].t \in {"doc", "idx"}
              /\ \A i \in Materialized :
                    Cardinality({j \in 1..Len(ls) : ls[j] = <<Doc(i, data[i])>>}) = 1
              /\ \A f \in ActiveIndexes :
                    Cardinality({j \in 1..Len(ls) :
                                    ls[j][1].t = "idx" /\ ls[j][1].k = f}) = 1

CompactionNonBloatingWitness ==
    /\ op = "compact"
    /\ pc = "idle"
    /\ result = "ok"
    /\ newDocsGiven = <<Doc("b", 1), Tombstone("a")>>
    /\ InSeq(Tombstone("a"), rwOld.content)
    /\ InSeq(Doc("b", 2), rwOld.content)
    /\ DatafileLines = <<(<<Doc("b", 1)>>)>>

\* One newline-terminated line for each record, in the order given.
RECURSIVE AppendedText(_)
AppendedText(nd) ==
    IF Len(nd) = 0 THEN <<>> ELSE <<Head(nd), NL>> \o AppendedText(Tail(nd))

\* C12: a successful persistNewState of a non-empty list on a durable store
\* leaves the datafile as it was followed by one line for each record, in
\* order; for an empty list or an in-memory store nothing is written and
\* success is reported.
AppendOnlyAdds ==
    (op = "append" /\ pc = "idle")
        => /\ (result = "ok" /\ ~inMemoryOnly /\ newDocsGiven # <<>>)
                 => /\ fs[filename].exists
                    /\ fs[filename].content
                          = fsBefore[filename].content \o AppendedText(newDocsGiven)
                    /\ fs[TempName] = fsBefore[TempName]
                    /\ events = <<"append", "appendFile", "cb_ok">>
           /\ (inMemoryOnly \/ newDocsGiven = <<>>)
                 => /\ fs = fsBefore
                    /\ result = "ok"
                    /\ events = <<"append", "cb_ok">>

AppendOnlyAddsWitness ==
    /\ op = "append"
    /\ pc = "idle"
    /\ result = "ok"
    /\ ~inMemoryOnly
    /\ Len(newDocsGiven) = 2
    /\ Len(fsBefore[filename].content) > 0
    /\ Len(fs[filename].content) = Len(fsBefore[filename].content) + 4

\* C13: when the store was loaded and then given appends and compactions
\* one at a time, all successful, a load that follows returns the records
\* the in-order replay of the loaded log and of everything appended gives.
AppendCompactReload ==
    (op = "load" /\ pc = "idle" /\ result = "ok" /\ expected.known)
        => data = expected.data

AppendCompactReloadWitness ==
    /\ op = "load"
    /\ pc = "idle"
    /\ result = "ok"
    /\ expected.known
    /\ appends = 2
    /\ newDocsGiven = <<Doc("a", 2)>>
    /\ data = [i \in Ids |-> IF i = "b" THEN 1 ELSE 2]
    /\ DatafileLines = <<(<<Doc("a", 2)>>), (<<Doc("b", 1)>>)>>
\* C14: a load that finds neither the datafile nor its backup and succeeds
\* returns no record and no index, and leaves a datafile that exists, is
\* empty, splits into one blank line, and loads again to no record.
LoadOfNothing ==
    (op = "load" /\ pc = "idle" /\ result = "ok" /\ ~inMemoryOnly
        /\ ~fsBefore[filename].exists /\ ~fsBefore[TempName].exists)
        => /\ data = EmptyData
           /\ indexes = NoIndexes
           /\ fs[filename] = File(<<>>)
           /\ Split(fs[filename].content) = <<(<<>>)>>
           /\ treatRawData(fs[filename].content, threshold) = Success(TreatStart)
           /\ treatRawStream(fs[filename].content, threshold) = Success(TreatStart)

LoadOfNothingWitness ==
    /\ op = "load"
    /\ pc = "idle"
    /\ result = "ok"
    /\ ~fsBefore[filename].exists
    /\ ~fsBefore[TempName].exists
    /\ fs[filename] = File(<<>>)
    /\ InSeq("emit", events)

\* C16: when a rewrite has reported success the backup does not exist,
\* whether or not one was there when the rewrite started.
RewriteLeavesNoTemp ==
    (op \in {"load", "compact"} /\ ~inMemoryOnly
        /\ (pc = "rw_cb_ok" \/ (pc = "idle" /\ result = "ok")))
        => ~fs[TempName].exists

RewriteLeavesNoTempWitness ==
    /\ op = "compact"
    /\ pc = "idle"
    /\ result = "ok"
    /\ fsBefore[TempName].exists
    /\ fsBefore[TempName].content # rwNew
    /\ ~fs[TempName].exists
    /\ fs[filename] = File(rwNew)

\* The events of a rewrite whose every step succeeds.
SuccessEvents ==
    <<"flushdir1", IF rwOld.exists THEN "flushfile" ELSE "nofile", "write", "close",
      "flushtemp", "rename", "flushdir2">>

NeverInPlace ==
    (InSeq("compact", events) /\ ~inMemoryOnly /\ fs[filename] # rwOld)
        => /\ InSeq("rename", events)
           /\ fs[filename] = File(rwNew)
\* The hooks as supplied, the identity standing in for a missing one, take
\* some string the constructor drew to something else and back.
RoundTripBroken ==
    \E j \in 1..Len(probes) :
        LET ser == IF options.afterSerialization = "none" THEN "identity"
                   ELSE options.afterSerialization
            de == IF options.beforeDeserialization = "none" THEN "identity"
                  ELSE options.beforeDeserialization
        IN ApplyHook(de, ApplyHook(ser, probes[j])) # probes[j]
NameEndsInTilde ==
    Len(options.filename) > 0 /\ options.filename[Len(options.filename)] = "~"
OneHookOnly ==
    (options.afterSerialization = "none") # (options.beforeDeserialization = "none")
IdentityHooks ==
    \A n \in 0..MaxProbeLen : \A str \in [1..n -> Chars] :
        /\ ApplyHook(hooks.afterSerialization, str) = str
        /\ ApplyHook(hooks.beforeDeserialization, str) = str

AutocompactionFloor ==
    \A id \in 1..Len(timers) :
        LET t == timers[id]
        IN /\ t.period >= minInterval
           /\ t.requested.kind = "number"
                 => t.period = IF t.requested.n > minInterval THEN t.requested.n
                               ELSE minInterval
           /\ t.requested.kind = "undefined" => t.period = minInterval

ActiveTimers == {id \in 1..Len(timers) : timers[id].active}

\* In every state: the timers that run, and what a stop would do.
CancellationInv ==
    /\ ActiveTimers \subseteq {autocompactionIntervalId}
    /\ Cardinality(ActiveTimers) <= 1
    /\ LET stopped == stopAutocompaction(timers, autocompactionIntervalId)
       IN /\ \A id \in 1..Len(stopped) : ~stopped[id].active
          /\ stopAutocompaction(stopped, autocompactionIntervalId) = stopped
    /\ (autocompactionIntervalId = 0 => stopAutocompaction(timers, 0) = timers)

\* A step that clears a timer and makes none (a stop) leaves no timer
\* active and nothing else changed.
StopFrame ==
    (timers' # timers /\ Len(timers') = Len(timers))
        => (/\ ActiveTimers # {}
            /\ \A id \in 1..Len(timers) : ~timers'[id].active
            /\ <<queued, pc, op, fs, lines, wpos, events, result>>'
                  = <<queued, pc, op, fs, lines, wpos, events, result>>)
EnqueuedByHeldTimer ==
    (queued' > queued) => (ActiveTimers = {autocompactionIntervalId})
NewTimerReplaces ==
    (Len(timers') > Len(timers))
        => (\A id \in 1..Len(timers) : ~timers'[id].active)

\* C19: at most one timer is active and it is the one the store holds;
\* stopping leaves no timer active and touches neither the compactions that
\* wait nor the one in progress; stopping again, or with no timer ever
\* made, changes nothing; a compaction is enqueued only by the active timer.
AutocompactionCancellation ==
    /\ []CancellationInv
    /\ [][StopFrame /\ EnqueuedByHeldTimer /\ NewTimerReplaces]_vars

AutocompactionCancellationWitness ==
    /\ Len(timers) = 2
    /\ autocompactionIntervalId = 2
    /\ ActiveTimers = {}
    /\ queued > 0
    /\ pc = "rw_write"
    /\ op = "compact"

\* The corrupt count each interpreter holds when it compares it against the
\* threshold: treatRawData after its loop, treatRawStream at 'end'.
BlobCorruptItems == FoldData(TreatStart, Split(raw)).corruptItems
StreamCorruptItems == FoldStream(TreatStart, Byline(raw)).corruptItems
StreamLength == FoldStream(TreatStart, Byline(raw)).length

\* C21: on every log, with or without a blank last line, the corrupt count
\* that is compared against the threshold is the number of lines that do not
\* parse, a blank last line left out: nothing but that blank line is exempt.
OnlyTrailingBlankExempt ==
    phase = "done"
        => /\ BlobCorruptItems = Cardinality(CorruptLines)
           /\ StreamLength > 0 => StreamCorruptItems = Cardinality(CorruptLines)


\* C22: treatRawStream calls cb exactly once per load whatever the line
\* stream emits: never twice while the stream runs, and once, with an error
\* or with a result, when it has ended.
CallbackExactlyOnce ==
    /\ Len(cbCalls) <= 1
    /\ streamPhase = "ended" => Len(cbCalls) = 1

\* The call met a signature of "flush not supported", which is honoured for
\* a directory only: open failed with EISDIR, or fsync with EPERM or EISDIR.
FlushUnsupported ==
    /\ flushCall.isDir
    /\ \/ flushCall.openErr = "EISDIR"
       \/ flushCall.openErr = "none" /\ flushCall.fsyncErr \in {"EPERM", "EISDIR"}
\* Some call that was made failed: open, or, once the file is open, fsync
\* or close.
FlushFailed ==
    \/ flushCall.openErr # "none"
    \/ flushCall.fsyncErr # "none"
    \/ flushCall.closeErr # "none"

\* C23: a flush of a directory that meets a flush-unsupported signature
\* reports success; the same failure on a regular file, and every other
\* failure of open, fsync or close, is reported as an error.
FlushUnsupportedOnlyForDirs ==
    flushCall # NoFlush
        => /\ FlushUnsupported => flushReports = <<"ok">>
           /\ (FlushFailed /\ ~FlushUnsupported) => flushReports = <<"err">>

\* C24: flushToStorage calls its callback exactly once, in both call forms
\* and for every outcome of open, fsync and close, and no exception escapes.
FlushReportsOnce ==
    flushCall # NoFlush => (Len(flushReports) = 1 /\ ~flushThrew)

\* C27: once a failed append has left part of its text in the datafile, a
\* later load does not fail on it and materializes every record that was
\* appended with success, before or after the failure; and after a
\* successful compaction the datafile holds no torn line.
AppendFailureLosesNothing ==
    /\ (op = "load" /\ pc = "idle" /\ result # "none" /\ kept.known /\ kept.torn)
          => /\ failCause # "corrupt"
             /\ result = "ok" => \A i \in Ids \ kept.lost : data[i] = kept.data[i]
    /\ (op \in {"load", "compact"} /\ pc = "idle" /\ result = "ok" /\ ~inMemoryOnly)
          => ~InSeq(Junk, fs[filename].content)

\* The direct call was made after the rewrite took its lines and before its
\* rename, and its callback got no error.
DirectBeforeRename ==
    /\ direct.result = "ok"
    /\ direct.at \in BeforeRenameDone

\* C26: nothing in the coordinator orders persistNewState against a rewrite
\* in flight: a call made between the snapshot and the rename goes through,
\* reports success, and when the rewrite has completed the datafile is the
\* snapshot alone, without the appended lines.
DirectAppendLost ==
    (DirectBeforeRename /\ pc = "idle" /\ result = "ok")
        => /\ fs[filename].content = rwNew
           /\ \A j \in 1..Len(direct.docs) :
                 ~InSeq(direct.docs[j], fs[filename].content)

DirectAppendLostWitness ==
    /\ DirectBeforeRename
    /\ direct.docs = <<Doc("b", 1), Tombstone("a")>>
    /\ direct.at = "rw_write"
    /\ op = "compact"
    /\ pc = "idle"
    /\ result = "ok"
    /\ data = [i \in Ids |-> IF i = "b" THEN 1 ELSE Absent]
    /\ DatafileLines = <<(<<Doc("a", 1)>>), (<<Doc("b", 2)>>)>>

\* Tasks start in the order pushed; an append that went through the queue
\* ran while no rewrite was in flight; and what the timers pushed and is
\* not started yet waits in the queue.
SerializedInv ==
    /\ \A j \in 1..Len(started) : started[j] = j
    /\ (direct # NoDirect => direct.at = "idle")
    /\ queued = Cardinality({j \in 1..Len(buffer) : buffer[j].fn = "persistCachedDatabase"})
\* A tick changes the queue and nothing of the store or its files.
TickOnlyEnqueues ==
    (queued' = queued + 1)
        => (/\ buffer' = Append(buffer, CompactTask(pushed'))
            /\ pc' = pc /\ op' = op /\ fs' = fs /\ lines' = lines /\ wpos' = wpos
            /\ data' = data /\ indexes' = indexes)
\* A compaction starts only when the operation before it has called back,
\* and it is the task at the head of the queue.
CompactionFromHead ==
    (op' = "compact" /\ pc' \in RewritePcs /\ pc \notin RewritePcs)
        => (/\ pc = "idle"
            /\ result # "none"
            /\ Len(buffer) > 0
            /\ Head(buffer).fn = "persistCachedDatabase"
            /\ buffer' = Tail(buffer)
            /\ started' = Append(started, Head(buffer).id))
\* While a rewrite is in flight the datafile changes by its rename only.
RewriteUndisturbed ==
    (pc \in RewritePcs /\ fs'[filename] # fs[filename]) => pc = "rw_rename"

\* C25: a tick of the autocompaction timer only enqueues persistCachedDatabase;
\* the queued compactions and appends start one at a time, in the order
\* pushed, each after the one before it has called back, so no rewrite
\* starts or is appended to while another is in flight.
AutocompactionSerialized ==
    /\ []SerializedInv
    /\ [][TickOnlyEnqueues /\ CompactionFromHead /\ RewriteUndisturbed]_vars

AutocompactionSerializedWitness ==
    /\ Len(started) = 3
    /\ Len(timers) > 0
    /\ direct.result = "ok"
    /\ direct.docs = <<Doc("a", 2)>>
    /\ op = "compact"
    /\ pc = "idle"
    /\ result = "ok"
    /\ DatafileLines = <<(<<Doc("a", 2)>>), (<<Doc("b", 2)>>)>>

====
